---------------------------- MODULE Spec2Model ----------------------------
(* Model of src/src/main.cpp: the pyramid demo's startup, camera selection *)
(* (processInput), render loop and shutdown.                               *)
(* Vectors are integer triples <<x, y, z>>; every vector the program       *)
(* computes is axis-aligned, so lengths and normalisations are exact.      *)
EXTENDS Integers, Sequences, FiniteSets

VARIABLES
    pc,                     \* position of main()
    glfw,                   \* state of the windowing library
    window,                 \* "none", "null" (creation failed) or "open"
    glad,                   \* "unloaded", "loaded" or "failed"
    shouldClose,            \* the window-close flag
    keys,                   \* keys whose cached state is GLFW_PRESS
    currentCameraPosition,  \* global, main.cpp:30
    cameraFront,            \* global, main.cpp:28
    cameraUp,               \* global, main.cpp:29
    shaderProgram,          \* result of createShaderProgram, or NoProgram
    gen,                    \* per GPU object: number of times created
    uploads,                \* per buffer: number of glBufferData calls
    del,                    \* per GPU object: number of times deleted
    i,                      \* loop variable of the draw loop
    view,                   \* look-at inputs of the current iteration
    draws,                  \* draw calls issued in the current iteration
    frame,                  \* steps performed in the current iteration
    inputCam,               \* camera state left by this iteration's processInput
    lastKeys,               \* selection keys seen by the latest processInput
    held,                   \* latest processInput saw the same keys as the one before
    returned                \* << >> while main runs, <<status>> once it returned

vars == <<pc, glfw, window, glad, shouldClose, keys, currentCameraPosition,
          cameraFront, cameraUp, shaderProgram, gen, uploads, del, i, view,
          draws, frame, inputCam, lastKeys, held, returned>>

-----------------------------------------------------------------------------
(* Vector arithmetic (glm::vec3)                                           *)

Vec3(x, y, z) == <<x, y, z>>

Sub(a, b) == <<a[1] - b[1], a[2] - b[2], a[3] - b[3]>>

Add(a, b) == <<a[1] + b[1], a[2] + b[2], a[3] + b[3]>>

Dot(a, b) == a[1] * b[1] + a[2] * b[2] + a[3] * b[3]

Cross(a, b) == <<a[2] * b[3] - a[3] * b[2],
                 a[3] * b[1] - a[1] * b[3],
                 a[1] * b[2] - a[2] * b[1]>>

ISqrt(n) == CHOOSE r \in 0..n : r * r <= n /\ n < (r + 1) * (r + 1)

Quot(a, b) == IF a >= 0 THEN a \div b ELSE -((-a) \div b)

Normalize_NoDiv(v) == v

\* glm::normalize: v * inversesqrt(dot(v, v)).  A zero vector has no
\* direction (the floating-point result is NaN); it is returned unchanged
\* here and never arises from the three camera presets.
Normalize(v) ==
    LET len == ISqrt(Dot(v, v))
    IN  IF len = 0 THEN v
        ELSE <<Quot(v[1], len), Quot(v[2], len), Quot(v[3], len)>>

-----------------------------------------------------------------------------
(* Globals                                                                 *)

sceneCenter == Vec3(0, 0, 0)

cameraPositions == [n \in 0..2 |->
    IF n = 0 THEN Vec3(0, 0, 10)
    ELSE IF n = 1 THEN Vec3(0, 10, 0)
    ELSE Vec3(10, 0, 0)]

InitialFront == Vec3(0, 0, -1)

InitialUp == Vec3(0, 1, 0)

TopUp == Vec3(0, 0, -1)

SelKeys == {"1", "2", "3"}

Keys == SelKeys \cup {"ESC"}

Objects == {"VAO", "VBO", "EBO", "program"}

Buffers == {"VBO", "EBO"}

IndexCount == 18

Instances == 3

NoProgram == [created |-> FALSE, vsrc |-> "", fsrc |-> "", vs |-> 0, fs |-> 0]

NoView == [computed |-> FALSE, eye |-> sceneCenter, target |-> sceneCenter,
           up |-> sceneCenter, side |-> sceneCenter]

NoCam == [set |-> FALSE, pos |-> 0, front |-> sceneCenter, up |-> sceneCenter]

Cam == [pos |-> currentCameraPosition, front |-> cameraFront, up |-> cameraUp]

-----------------------------------------------------------------------------
(* processInput: the three independent key tests, in source order          *)

ApplyFront(cam) ==
    [cam EXCEPT !.pos = 0,
                !.front = Normalize(Sub(sceneCenter, cameraPositions[0]))]

ApplyTop_NoUp(cam) ==
    [cam EXCEPT !.pos = 1,
                !.front = Normalize(Sub(sceneCenter, cameraPositions[1]))]

ApplyTop(cam) ==
    [cam EXCEPT !.pos = 1,
                !.front = Normalize(Sub(sceneCenter, cameraPositions[1])),
                !.up = TopUp]

ApplySide_Stale(cam) ==
    [cam EXCEPT !.pos = 2,
                !.front = Normalize(Sub(sceneCenter, cameraPositions[cam.pos]))]

ApplySide_Cycle(cam) ==
    LET n == (cam.pos + 1) % 3
    IN  [cam EXCEPT !.pos = n,
                    !.front = Normalize(Sub(sceneCenter, cameraPositions[n]))]

ApplySide(cam) ==
    [cam EXCEPT !.pos = 2,
                !.front = Normalize(Sub(sceneCenter, cameraPositions[2]))]

processInputCam(cam, down) ==
    LET c1 == IF "1" \in down THEN ApplyFront(cam) ELSE cam
        c2 == IF "2" \in down THEN ApplyTop(c1) ELSE c1
        c3 == IF "3" \in down THEN ApplySide(c2) ELSE c2
    IN  c3

-----------------------------------------------------------------------------
(* Shader loading                                                          *)

\* readFile: the file's text, or "" when the file cannot be opened.
readFile(exists) == IF exists THEN "src" ELSE ""

\* compileShader: the shader id, or 0 when the driver rejects the source.
compileShader(id, compiles) == IF compiles THEN id ELSE 0

createShaderProgram(vsrc, fsrc, vOk, fOk) ==
    [created |-> TRUE, vsrc |-> vsrc, fsrc |-> fsrc,
     vs |-> compileShader(1, vOk), fs |-> compileShader(2, fOk)]

-----------------------------------------------------------------------------
(* Per-frame computations                                                  *)

ModelTranslation_Off(n) == Vec3(n * 2 - 1, 0, 0)

ModelTranslation(n) == Vec3(n * 2 - 2, 0, 0)

\* glm::lookAt inputs and the cross product of forward and up it is built on.
LookAt(eye, target, up) ==
    [computed |-> TRUE, eye |-> eye, target |-> target, up |-> up,
     side |-> Cross(Normalize(Sub(target, eye)), up)]

-----------------------------------------------------------------------------
Init ==
    /\ pc = "glfwInit"
    /\ glfw = "uninit"
    /\ window = "none"
    /\ glad = "unloaded"
    /\ shouldClose = FALSE
    /\ keys = {}
    /\ currentCameraPosition = 0
    /\ cameraFront = InitialFront
    /\ cameraUp = InitialUp
    /\ shaderProgram = NoProgram
    /\ gen = [o \in Objects |-> 0]
    /\ uploads = [b \in Buffers |-> 0]
    /\ del = [o \in Objects |-> 0]
    /\ i = 0
    /\ view = NoView
    /\ draws = << >>
    /\ frame = << >>
    /\ inputCam = NoCam
    /\ lastKeys = {"none"}
    /\ held = FALSE
    /\ returned = << >>

camVars == <<currentCameraPosition, cameraFront, cameraUp>>

gpuVars == <<shaderProgram, gen, uploads, del>>

iterVars == <<i, view, draws, frame, inputCam>>

histVars == <<lastKeys, held>>

\* main.cpp:35
GlfwInit ==
    /\ pc = "glfwInit"
    /\ \E ok \in BOOLEAN : glfw' = IF ok THEN "init" ELSE "initFailed"
    /\ pc' = "createWindow"
    /\ UNCHANGED <<window, glad, shouldClose, keys, camVars, gpuVars,
                   iterVars, histVars, returned>>

\* main.cpp:48-55
CreateWindow ==
    /\ pc = "createWindow"
    /\ \E ok \in BOOLEAN :
         IF ok /\ glfw = "init"
         THEN /\ window' = "open"
              /\ pc' = "loadGlad"
              /\ UNCHANGED <<glfw, returned>>
         ELSE /\ window' = "null"
              /\ glfw' = "terminated"
              /\ returned' = <<-1>>
              /\ pc' = "done"
    /\ UNCHANGED <<glad, shouldClose, keys, camVars, gpuVars, iterVars,
                   histVars>>

LoadGlad_Continue ==
    /\ pc = "loadGlad"
    /\ \E ok \in BOOLEAN : glad' = IF ok THEN "loaded" ELSE "failed"
    /\ pc' = "loadShaders"
    /\ UNCHANGED <<glfw, window, shouldClose, keys, camVars, gpuVars,
                   iterVars, histVars, returned>>

\* main.cpp:61-65
LoadGlad ==
    /\ pc = "loadGlad"
    /\ \E ok \in BOOLEAN :
         IF ok
         THEN /\ glad' = "loaded"
              /\ pc' = "loadShaders"
              /\ UNCHANGED returned
         ELSE /\ glad' = "failed"
              /\ returned' = <<-1>>
              /\ pc' = "done"
    /\ UNCHANGED <<glfw, window, shouldClose, keys, camVars, gpuVars,
                   iterVars, histVars>>

\* main.cpp:68-70
LoadShaders ==
    /\ pc = "loadShaders"
    /\ \E vExists \in BOOLEAN, fExists \in BOOLEAN,
          vOk \in BOOLEAN, fOk \in BOOLEAN :
         shaderProgram' = createShaderProgram(readFile(vExists),
                                              readFile(fExists), vOk, fOk)
    /\ gen' = [gen EXCEPT !["program"] = @ + 1]
    /\ pc' = "setupGeometry"
    /\ UNCHANGED <<glfw, window, glad, shouldClose, keys, camVars, uploads, del,
                   iterVars, histVars, returned>>

\* main.cpp:92-112
SetupGeometry ==
    /\ pc = "setupGeometry"
    /\ gen' = [gen EXCEPT !["VAO"] = @ + 1, !["VBO"] = @ + 1, !["EBO"] = @ + 1]
    /\ uploads' = [uploads EXCEPT !["VBO"] = @ + 1, !["EBO"] = @ + 1]
    /\ pc' = "loopHead"
    /\ UNCHANGED <<glfw, window, glad, shouldClose, keys, camVars, shaderProgram,
                   del, iterVars, histVars, returned>>

LoopHead_IgnoreFlag ==
    /\ pc = "loopHead"
    /\ pc' = "processInput"
    /\ i' = 0
    /\ view' = NoView
    /\ draws' = << >>
    /\ frame' = << >>
    /\ inputCam' = NoCam
    /\ UNCHANGED <<glfw, window, glad, shouldClose, keys, camVars, gpuVars,
                   histVars, returned>>

\* main.cpp:115: the loop test.  The locals of the loop body go out of scope
\* between iterations, so entering the body starts from fresh ones.
LoopHead ==
    /\ pc = "loopHead"
    /\ IF shouldClose
       THEN /\ pc' = "cleanup"
            /\ UNCHANGED iterVars
       ELSE /\ pc' = "processInput"
            /\ i' = 0
            /\ view' = NoView
            /\ draws' = << >>
            /\ frame' = << >>
            /\ inputCam' = NoCam
    /\ UNCHANGED <<glfw, window, glad, shouldClose, keys, camVars, gpuVars,
                   histVars, returned>>

\* main.cpp:117, 175-205
ProcessInput ==
    /\ pc = "processInput"
    /\ shouldClose' = (shouldClose \/ "ESC" \in keys)
    /\ LET c == processInputCam(Cam, keys)
       IN  /\ currentCameraPosition' = c.pos
           /\ cameraFront' = c.front
           /\ cameraUp' = c.up
           /\ inputCam' = [set |-> TRUE, pos |-> c.pos, front |-> c.front,
                           up |-> c.up]
    /\ lastKeys' = keys \cap SelKeys
    /\ held' = (lastKeys = keys \cap SelKeys)
    /\ frame' = Append(frame, "processInput")
    /\ pc' = "clear"
    /\ UNCHANGED <<glfw, window, glad, keys, gpuVars, i, view, draws, returned>>

\* main.cpp:120-121
Clear ==
    /\ pc = "clear"
    /\ frame' = Append(frame, "clear")
    /\ pc' = "useProgram"
    /\ UNCHANGED <<glfw, window, glad, shouldClose, keys, camVars, gpuVars, i, view,
                   draws, inputCam, histVars, returned>>

\* main.cpp:124
UseProgram ==
    /\ pc = "useProgram"
    /\ frame' = Append(frame, "useProgram")
    /\ pc' = "viewMatrix"
    /\ UNCHANGED <<glfw, window, glad, shouldClose, keys, camVars, gpuVars, i, view,
                   draws, inputCam, histVars, returned>>

\* main.cpp:127-130
ViewMatrix ==
    /\ pc = "viewMatrix"
    /\ LET eye == cameraPositions[currentCameraPosition]
           target == Add(eye, cameraFront)
       IN  view' = LookAt(eye, target, cameraUp)
    /\ frame' = Append(frame, "view")
    /\ pc' = "projection"
    /\ UNCHANGED <<glfw, window, glad, shouldClose, keys, camVars, gpuVars, i,
                   draws, inputCam, histVars, returned>>

\* main.cpp:133-135, and the initialisation of the draw loop (main.cpp:138)
Projection ==
    /\ pc = "projection"
    /\ frame' = Append(frame, "projection")
    /\ i' = 0
    /\ pc' = "draw"
    /\ UNCHANGED <<glfw, window, glad, shouldClose, keys, camVars, gpuVars, view,
                   draws, inputCam, histVars, returned>>

\* main.cpp:138-148: one pass of the draw loop
DrawPyramid ==
    /\ pc = "draw"
    /\ i < Instances
    /\ draws' = Append(draws, [count |-> IndexCount,
                               translate |-> ModelTranslation(i)])
    /\ frame' = Append(frame, "draw")
    /\ i' = i + 1
    /\ pc' = IF i + 1 < Instances THEN "draw" ELSE "swapBuffers"
    /\ UNCHANGED <<glfw, window, glad, shouldClose, keys, camVars, gpuVars, view,
                   inputCam, histVars, returned>>

\* main.cpp:150
SwapBuffers ==
    /\ pc = "swapBuffers"
    /\ frame' = Append(frame, "swap")
    /\ pc' = "pollEvents"
    /\ UNCHANGED <<glfw, window, glad, shouldClose, keys, camVars, gpuVars, i, view,
                   draws, inputCam, histVars, returned>>

\* main.cpp:151: the only place where key states and an OS close request
\* are delivered
PollEvents ==
    /\ pc = "pollEvents"
    /\ \E down \in SUBSET Keys, close \in BOOLEAN :
         /\ keys' = down
         /\ shouldClose' = (shouldClose \/ close)
    /\ frame' = Append(frame, "poll")
    /\ pc' = "loopHead"
    /\ UNCHANGED <<glfw, window, glad, camVars, gpuVars, i, view, draws, inputCam,
                   histVars, returned>>

Cleanup_LeakEBO ==
    /\ pc = "cleanup"
    /\ del' = [del EXCEPT !["VAO"] = @ + 1, !["VBO"] = @ + 2,
                          !["program"] = @ + 1]
    /\ glfw' = "terminated"
    /\ returned' = <<0>>
    /\ pc' = "done"
    /\ UNCHANGED <<window, glad, shouldClose, keys, camVars, shaderProgram, gen,
                   uploads, iterVars, histVars>>

\* main.cpp:155-161
Cleanup ==
    /\ pc = "cleanup"
    /\ del' = [del EXCEPT !["VAO"] = @ + 1, !["VBO"] = @ + 1,
                          !["EBO"] = @ + 1, !["program"] = @ + 1]
    /\ glfw' = "terminated"
    /\ returned' = <<0>>
    /\ pc' = "done"
    /\ UNCHANGED <<window, glad, shouldClose, keys, camVars, shaderProgram, gen,
                   uploads, iterVars, histVars>>

Next ==
    \/ GlfwInit
    \/ CreateWindow
    \/ LoadGlad
    \/ LoadShaders
    \/ SetupGeometry
    \/ LoopHead
    \/ ProcessInput
    \/ Clear
    \/ UseProgram
    \/ ViewMatrix
    \/ Projection
    \/ DrawPyramid
    \/ SwapBuffers
    \/ PollEvents
    \/ Cleanup

Spec == Init /\ [][Next]_vars

\* main() is a sequential program: it always takes its next step.
FairSpec == Spec /\ WF_vars(Next)

-----------------------------------------------------------------------------
(* Vocabulary of the properties                                            *)

ExpectedFront == [n \in 0..2 |->
    IF n = 0 THEN Vec3(0, 0, -1)
    ELSE IF n = 1 THEN Vec3(0, -1, 0)
    ELSE Vec3(-1, 0, 0)]

KeyOf == [n \in 0..2 |-> IF n = 0 THEN "1" ELSE IF n = 1 THEN "2" ELSE "3"]

\* d is the unit vector pointing from p towards the scene center
UnitTowardsCenter(d, p) ==
    /\ Dot(d, d) = 1
    /\ Cross(d, Sub(sceneCenter, p)) = Vec3(0, 0, 0)
    /\ Dot(d, Sub(sceneCenter, p)) > 0

FullFrame == <<"processInput", "clear", "useProgram", "view", "projection",
               "draw", "draw", "draw", "swap", "poll">>

ExpectedDraws == <<[count |-> 18, translate |-> Vec3(-2, 0, 0)],
                   [count |-> 18, translate |-> Vec3(0, 0, 0)],
                   [count |-> 18, translate |-> Vec3(2, 0, 0)]>>

IsPrefix(s, t) == Len(s) <= Len(t) /\ s = SubSeq(t, 1, Len(s))

BodyPcs == {"processInput", "clear", "useProgram", "viewMatrix", "projection",
            "draw", "swapBuffers", "pollEvents"}

LoopPcs == BodyPcs \cup {"loopHead"}

DrawsIn(s) == Cardinality({n \in 1..Len(s) : s[n] = "draw"})

-----------------------------------------------------------------------------
\* C1: in every reachable state currentCameraPosition is 0, 1 or 2 and
\* cameraFront is the unit vector from cameraPositions[currentCameraPosition]
\* to the scene center: (0,0,-1), (0,-1,0), (-1,0,0) for index 0, 1, 2.
C1_CameraInvariant ==
    /\ currentCameraPosition \in 0..2
    /\ cameraFront = ExpectedFront[currentCameraPosition]
    /\ UnitTowardsCenter(cameraFront, cameraPositions[currentCameraPosition])

C1_Witness ==
    /\ inputCam.set
    /\ lastKeys = {"3"}
    /\ currentCameraPosition = 2
    /\ cameraFront = Vec3(-1, 0, 0)

\* C2: a processInput call in which the key of view n is the only selection
\* key down ends with currentCameraPosition = n and cameraFront the unit
\* vector from cameraPositions[n] to the scene center; key '2' pressed in the
\* start camera state gives position (0,10,0), up (0,0,-1), forward (0,-1,0).
C2_SelectView ==
    [][pc = "processInput" =>
         /\ \A n \in 0..2 :
              keys \cap SelKeys = {KeyOf[n]} =>
                /\ currentCameraPosition' = n
                /\ cameraFront' = ExpectedFront[n]
                /\ UnitTowardsCenter(cameraFront', cameraPositions[n])
         /\ ( /\ keys \cap SelKeys = {"2"}
              /\ currentCameraPosition = 0
              /\ cameraFront = InitialFront
              /\ cameraUp = InitialUp )
            => /\ cameraPositions[currentCameraPosition'] = Vec3(0, 10, 0)
               /\ cameraUp' = Vec3(0, 0, -1)
               /\ cameraFront' = Vec3(0, -1, 0)]_vars

C2_Witness ==
    /\ pc = "clear"
    /\ lastKeys = {"2"}
    /\ ~held
    /\ currentCameraPosition = 1
    /\ cameraFront = Vec3(0, -1, 0)
    /\ cameraUp = Vec3(0, 0, -1)

\* C3 as stated: a processInput call that ends with Top selected because key
\* 2 was down leaves cameraUp = (0,0,-1); a call that ends with Front or Side
\* selected leaves cameraUp at the value it had before the call.
C3_UpByFinalView ==
    [][pc = "processInput" =>
         /\ (currentCameraPosition' = 1 /\ "2" \in keys) => cameraUp' = TopUp
         /\ currentCameraPosition' \in {0, 2} => cameraUp' = cameraUp]_vars

\* C3 amended: a processInput call with key 2 down leaves cameraUp =
\* (0,0,-1) whichever view it ends in; a call with key 2 not down leaves
\* cameraUp at the value it had before the call.
C3_UpByKey2 ==
    [][pc = "processInput" =>
         /\ "2" \in keys => cameraUp' = TopUp
         /\ "2" \notin keys => cameraUp' = cameraUp]_vars

C3_Witness ==
    /\ pc = "clear"
    /\ lastKeys = {"2", "3"}
    /\ currentCameraPosition = 2
    /\ cameraUp = TopUp

\* C4: the close flag is tested only at the loop head: with the flag set the
\* loop is left for cleanup, with the flag clear the body is entered; inside
\* the body the iteration runs on to its end whatever the flag, so the loop is
\* left only from the head, after a complete frame; once the flag is set in
\* the loop, main reaches its return with status 0.
C4_LoopTermination ==
    /\ [][ /\ (pc = "loopHead" /\ shouldClose) => pc' = "cleanup"
           /\ (pc = "loopHead" /\ ~shouldClose) => pc' = "processInput"
           /\ pc \in BodyPcs => pc' \in LoopPcs
           /\ pc' = "cleanup" =>
                (pc = "loopHead" /\ shouldClose /\ frame = FullFrame)
           /\ shouldClose => shouldClose' ]_vars
    /\ ((pc \in LoopPcs /\ shouldClose) ~> (pc = "done" /\ returned = <<0>>))

C4_Witness ==
    /\ pc = "done"
    /\ returned = <<0>>
    /\ "ESC" \in keys
    /\ frame = FullFrame

\* C5: main returns -1 exactly when window creation or GLAD loading failed
\* and 0 otherwise; a missing shader file or a failed shader compilation
\* never makes main return early: such a run goes through the render loop
\* and returns 0.
C5_ExitStatus ==
    /\ pc # "done" => returned = << >>
    /\ pc = "done" =>
         returned = IF window = "null" \/ glad = "failed" THEN <<-1>>
                    ELSE <<0>>
    /\ returned = <<-1>> => ~shaderProgram.created
    /\ (pc = "done" /\ shaderProgram.created) =>
         (returned = <<0>> /\ frame = FullFrame)

C5_Witness ==
    /\ pc = "done"
    /\ returned = <<0>>
    /\ shaderProgram.vsrc = ""
    /\ shaderProgram.fs = 0

\* C6: the vertex array, the two buffers and the shader program are each
\* created once before the loop, are neither created, uploaded nor deleted
\* while the loop runs, are each deleted once after it, and every draw call
\* is issued while all of them exist.
C6_ResourceLifetime ==
    /\ [](/\ \A o \in Objects : gen[o] <= 1 /\ del[o] <= gen[o]
          /\ \A b \in Buffers : uploads[b] <= gen[b]
          /\ pc \in LoopPcs =>
               /\ \A o \in Objects : gen[o] = 1 /\ del[o] = 0
               /\ \A b \in Buffers : uploads[b] = 1
          /\ (pc = "done" /\ returned = <<0>>) =>
               /\ \A o \in Objects : gen[o] = 1 /\ del[o] = 1
               /\ \A b \in Buffers : uploads[b] = 1)
    /\ [][ /\ pc \in BodyPcs => UNCHANGED <<gen, uploads, del>>
           /\ (del' # del) => pc = "cleanup"
           /\ (gen' # gen \/ uploads' # uploads) => frame = << >>
           /\ (draws' # draws /\ draws' # << >>) =>
                \A o \in Objects : gen[o] = 1 /\ del[o] = 0 ]_vars

C6_Witness ==
    /\ pc = "done"
    /\ returned = <<0>>
    /\ Len(draws) = 3
    /\ \A o \in Objects : gen[o] = 1 /\ del[o] = 1

\* C7: a processInput call that sees the same selection keys down as the
\* call before it leaves currentCameraPosition, cameraFront and cameraUp as
\* that call left them.
C7_HeldKeysIdempotent ==
    [][(pc = "processInput" /\ lastKeys = keys \cap SelKeys) =>
         /\ currentCameraPosition' = currentCameraPosition
         /\ cameraFront' = cameraFront
         /\ cameraUp' = cameraUp]_vars

C7_Witness ==
    /\ pc = "clear"
    /\ held
    /\ lastKeys = {"2", "3"}
    /\ currentCameraPosition = 2
    /\ cameraUp = TopUp

\* C8: the steps of an iteration come in the order processInput, clear, bind
\* program, view, projection, three draws, swap, poll; the draws are of 18
\* indices with translations (-2,0,0), (0,0,0), (2,0,0) in that order, all
\* three issued before the swap; the view is computed from the camera state
\* left by the processInput call of the same iteration.
C8_FrameOrder ==
    /\ IsPrefix(frame, FullFrame)
    /\ Len(draws) = DrawsIn(frame)
    /\ IsPrefix(draws, ExpectedDraws)
    /\ (Len(frame) >= 9) => draws = ExpectedDraws
    /\ view.computed =>
         /\ inputCam.set
         /\ Len(frame) >= 4
         /\ view.eye = cameraPositions[inputCam.pos]
         /\ view.target = Add(cameraPositions[inputCam.pos], inputCam.front)
         /\ view.up = inputCam.up

C8_Witness ==
    /\ frame = FullFrame
    /\ draws = ExpectedDraws
    /\ view.computed
    /\ view.eye = Vec3(0, 10, 0)
    /\ lastKeys = {"2"}

\* C9: in every frame the look-at inputs are non-degenerate: cameraUp is not
\* parallel to cameraFront, so the cross product of forward and up is
\* non-zero.
C9_NonDegenerateView ==
    view.computed => view.side # Vec3(0, 0, 0)

\* C10: whenever main has returned, glfwTerminate has been called.
C10_TerminateBeforeReturn ==
    pc = "done" => glfw = "terminated"

=============================================================================
